---- MODULE Spec2Model ----
(***************************************************************************)
(* Model of the wasmcloud provider `generate!` procedural macro           *)
(* (src/src/lib.rs): input check, traversal of the wit-bindgen output by   *)
(* WitBindgenOutputVisitor, build_lattice_methods_by_wit_interface, the    *)
(* emission of the per-interface declarations, and the behaviour of the    *)
(* emitted dispatch routine.                                               *)
(*                                                                         *)
(* Strings are sequences of one-character strings, so that case            *)
(* conversion and concatenation are computed, not assumed.                 *)
(***************************************************************************)
EXTENDS Integers, Sequences, FiniteSets, TLC

\* ------------------------------------------------------------------------
\* Bounds of the model
\* ------------------------------------------------------------------------

\* longest macro input (in tokens) that is explored
MaxTokens == 3

\* number of times generate is run on the same input
MaxRuns == 2

\* ------------------------------------------------------------------------
\* Options and small helpers
\* ------------------------------------------------------------------------

None == << >>

Some(x) == << x >>

IsSome(o) == Len(o) = 1

Unwrap(o) == o[1]

Last(s) == s[Len(s)]

\* every enumeration order of a finite set (the possible iteration orders of a
\* std HashMap, which is seeded per map instance)
IterOrders(S) ==
    { p \in [1 .. Cardinality(S) -> S] : \A i, j \in 1 .. Cardinality(S) : p[i] = p[j] => i = j }

\* ------------------------------------------------------------------------
\* Characters and heck::ToUpperCamelCase
\* ------------------------------------------------------------------------

LowerChars ==
    << "a", "b", "c", "d", "e", "f", "g", "h", "i", "j", "k", "l", "m",
       "n", "o", "p", "q", "r", "s", "t", "u", "v", "w", "x", "y", "z" >>

UpperChars ==
    << "A", "B", "C", "D", "E", "F", "G", "H", "I", "J", "K", "L", "M",
       "N", "O", "P", "Q", "R", "S", "T", "U", "V", "W", "X", "Y", "Z" >>

DigitChars == { "0", "1", "2", "3", "4", "5", "6", "7", "8", "9" }

IsLower(c) == \E i \in 1 .. Len(LowerChars) : LowerChars[i] = c

IsUpper(c) == \E i \in 1 .. Len(UpperChars) : UpperChars[i] = c

IsAlphanumeric(c) == IsLower(c) \/ IsUpper(c) \/ c \in DigitChars

ToUpper(c) ==
    IF IsLower(c) THEN UpperChars[CHOOSE i \in 1 .. Len(LowerChars) : LowerChars[i] = c] ELSE c

ToLower(c) ==
    IF IsUpper(c) THEN LowerChars[CHOOSE i \in 1 .. Len(UpperChars) : UpperChars[i] = c] ELSE c

\* heck's `capitalize`: first character upper-cased, the rest lower-cased
Capitalize(w) ==
    [ i \in 1 .. Len(w) |-> IF i = 1 THEN ToUpper(w[i]) ELSE ToLower(w[i]) ]

\* heck's `transform` on one run of alphanumeric characters: `cur` is the word
\* collected since the last boundary, `mode` the WordMode
RECURSIVE CamelScan(_, _, _, _)
CamelScan(s, i, cur, mode) ==
    IF i > Len(s) THEN << >>
    ELSE IF i = Len(s) THEN Capitalize(Append(cur, s[i]))
    ELSE LET c == s[i]
             next == s[i + 1]
             next_mode == IF IsLower(c) THEN "Lowercase"
                          ELSE IF IsUpper(c) THEN "Uppercase"
                          ELSE mode
         IN  IF next_mode = "Lowercase" /\ IsUpper(next)
             THEN Capitalize(Append(cur, c)) \o CamelScan(s, i + 1, << >>, "Boundary")
             ELSE IF mode = "Uppercase" /\ IsUpper(c) /\ IsLower(next)
             THEN Capitalize(cur) \o CamelScan(s, i + 1, << c >>, "Boundary")
             ELSE CamelScan(s, i + 1, Append(cur, c), next_mode)

\* the runs of alphanumeric characters of s (`s.split(|c| !c.is_alphanumeric())`)
RECURSIVE SplitWords(_, _)
SplitWords(s, cur) ==
    IF s = << >> THEN << cur >>
    ELSE IF IsAlphanumeric(Head(s)) THEN SplitWords(Tail(s), Append(cur, Head(s)))
    ELSE << cur >> \o SplitWords(Tail(s), << >>)

RECURSIVE CamelWords(_)
CamelWords(ws) ==
    IF ws = << >> THEN << >>
    ELSE CamelScan(Head(ws), 1, << >>, "Boundary") \o CamelWords(Tail(ws))

\* `s.to_upper_camel_case()`
UpperCamel(s) == CamelWords(SplitWords(s, << >>))

\* ------------------------------------------------------------------------
\* Identifiers and token trees
\* ------------------------------------------------------------------------

id_a == << "a" >>
id_b == << "b" >>
id_c == << "c" >>
id_d == << "d" >>
id_mut == << "m", "u", "t" >>
id_str == << "s", "t", "r" >>
id_u8 == << "u", "8" >>
id_u32 == << "u", "3", "2" >>
id_String == << "S", "t", "r", "i", "n", "g" >>
id_Vec == << "V", "e", "c" >>
id_Option == << "O", "p", "t", "i", "o", "n" >>
id_CustomType == << "C", "u", "s", "t", "o", "m", "T", "y", "p", "e" >>
id_Other == << "O", "t", "h", "e", "r" >>
id_derive == << "d", "e", "r", "i", "v", "e" >>
id_repr == << "r", "e", "p", "r" >>
id_C == << "C" >>
id_Clone == << "C", "l", "o", "n", "e" >>
id_serde == << "s", "e", "r", "d", "e" >>
id_Serialize == << "S", "e", "r", "i", "a", "l", "i", "z", "e" >>
id_Deserialize == << "D", "e", "s", "e", "r", "i", "a", "l", "i", "z", "e" >>
id_Foo == << "F", "o", "o" >>

\* module and function names of the explored trees
id_wc == << "w", "c" >>
id_ns2 == << "n", "s", "2" >>
id_kv == << "k", "v" >>
id_msg == << "m", "s", "g" >>
id_types == << "t", "y", "p", "e", "s" >>
id_store == << "s", "t", "o", "r", "e" >>
id_key_value == << "k", "e", "y", "_", "v", "a", "l", "u", "e" >>
id_get == << "g", "e", "t" >>
id_put == << "p", "u", "t" >>
id_get_all == << "g", "e", "t", "_", "a", "l", "l" >>
id_all == << "a", "l", "l" >>
id_store_get == << "s", "t", "o", "r", "e", "_", "g", "e", "t" >>

\* Rust module name that is used by wit-bindgen to generate all the modules
EXPORTS_MODULE_NAME == << "e", "x", "p", "o", "r", "t", "s" >>

\* a proc_macro2::TokenTree: its variant and its text (`to_string()`)
TIdent(s) == [ kind |-> "Ident", text |-> s ]

TPunct(ch) == [ kind |-> "Punct", text |-> << ch >> ]

TGroup(s) == [ kind |-> "Group", text |-> s ]

TLiteral(s) == [ kind |-> "Literal", text |-> s ]

IsIdentTok(t) == t.kind = "Ident"

IsPunctTok(t) == t.kind = "Punct"

IsGroupTok(t) == t.kind = "Group"

AsChar(t) == t.text[1]

\* the text of the group `[u8]`
txt_u8_slice == << "[", "u", "8", "]" >>

\* the tokens of a Punctuated<PathSegment, PathSep>: segments separated by `::`
RECURSIVE PathTokens(_)
PathTokens(path) ==
    IF path = << >> THEN << >>
    ELSE IF Len(path) = 1 THEN << TIdent(path[1]) >>
    ELSE << TIdent(path[1]), TPunct(":"), TPunct(":") >> \o PathTokens(Tail(path))

\* ------------------------------------------------------------------------
\* Signature transformer: one parameter
\* (struct_lookup is a function from structure names to module paths)
\* ------------------------------------------------------------------------

\* pattern: 'name: &T'
IsSimpleRef(ts) ==
    /\ Len(ts) = 4
    /\ IsIdentTok(ts[1])
    /\ IsPunctTok(ts[2])
    /\ IsPunctTok(ts[3])
    /\ IsIdentTok(ts[4])
    /\ AsChar(ts[3]) = "&"

\* pattern: 'name: Wrapper<&T>'
IsWrappedRef(ts) ==
    /\ Len(ts) >= 6
    /\ IsIdentTok(ts[1])
    /\ IsPunctTok(ts[2])
    /\ IsIdentTok(ts[3])
    /\ IsPunctTok(ts[4])
    /\ IsPunctTok(ts[5])
    /\ IsPunctTok(ts[Len(ts)])
    /\ AsChar(ts[4]) = "<"
    /\ AsChar(ts[5]) = "&"

\* a mutant of the simple_ref branch: the structure path table is not consulted
SimpleRefTokens_NoLookup(simple_ref, struct_lookup) ==
    IF simple_ref[4].text = id_str
    THEN << simple_ref[1], simple_ref[2], TIdent(id_String) >>
    ELSE << simple_ref[1], simple_ref[2], simple_ref[4] >>

\* tokens appended by the simple_ref branch
SimpleRefTokens(simple_ref, struct_lookup) ==
    IF simple_ref[4].text = id_str
    THEN << simple_ref[1], simple_ref[2], TIdent(id_String) >>
    ELSE << simple_ref[1], simple_ref[2] >>
         \o ( IF simple_ref[4].text \in DOMAIN struct_lookup
              THEN PathTokens(struct_lookup[simple_ref[4].text])
              ELSE << simple_ref[4] >> )

\* a mutant of the wrapped_ref branch: with the type in the structure path
\* table, the `&` before it is not copied
WrappedRefTokens_RefDropped(wrapped_ref, struct_lookup) ==
    LET type_section == SubSeq(wrapped_ref, 5, Len(wrapped_ref))
    IN  IF /\ Len(type_section) = 3
           /\ IsPunctTok(type_section[1])
           /\ IsIdentTok(type_section[2])
           /\ IsPunctTok(type_section[3])
           /\ type_section[2].text = id_str
        THEN << wrapped_ref[1], wrapped_ref[2], wrapped_ref[3], wrapped_ref[4],
                TIdent(id_String), wrapped_ref[6] >>
        ELSE IF /\ Len(type_section) = 3
                /\ IsPunctTok(type_section[1])
                /\ IsGroupTok(type_section[2])
                /\ IsPunctTok(type_section[3])
                /\ type_section[2].text = txt_u8_slice
        THEN << wrapped_ref[1], wrapped_ref[2], wrapped_ref[3], wrapped_ref[4],
                TIdent(id_Vec), TPunct("<"), TIdent(id_u8), TPunct(">"), TPunct(">") >>
        ELSE LET rest == type_section
             IN  IF rest[2].text \in DOMAIN struct_lookup
                 THEN SubSeq(wrapped_ref, 1, 4)
                      \o PathTokens(struct_lookup[rest[2].text])
                      \o SubSeq(wrapped_ref, 7, Len(wrapped_ref))
                 ELSE wrapped_ref

\* tokens appended by the wrapped_ref branch; wrapped_ref[k] of the source is
\* wrapped_ref[k + 1] here
WrappedRefTokens(wrapped_ref, struct_lookup) ==
    LET type_section == SubSeq(wrapped_ref, 5, Len(wrapped_ref))
    IN  IF /\ Len(type_section) = 3
           /\ IsPunctTok(type_section[1])
           /\ IsIdentTok(type_section[2])
           /\ IsPunctTok(type_section[3])
           /\ type_section[2].text = id_str
        THEN << wrapped_ref[1], wrapped_ref[2], wrapped_ref[3], wrapped_ref[4],
                TIdent(id_String), wrapped_ref[6] >>
        ELSE IF /\ Len(type_section) = 3
                /\ IsPunctTok(type_section[1])
                /\ IsGroupTok(type_section[2])
                /\ IsPunctTok(type_section[3])
                /\ type_section[2].text = txt_u8_slice
        THEN << wrapped_ref[1], wrapped_ref[2], wrapped_ref[3], wrapped_ref[4],
                TIdent(id_Vec), TPunct("<"), TIdent(id_u8), TPunct(">"), TPunct(">") >>
        ELSE LET rest == type_section
             IN  IF rest[2].text \in DOMAIN struct_lookup
                 THEN SubSeq(wrapped_ref, 1, 5)
                      \o PathTokens(struct_lookup[rest[2].text])
                      \o SubSeq(wrapped_ref, 7, Len(wrapped_ref))
                 ELSE wrapped_ref

\* names pushed to invocation_args by the default branch
UnknownArgs(ts) == IF IsIdentTok(ts[1]) THEN << ts[1].text >> ELSE << >>

\* the match on one parameter's tokens: the tokens it appends to the record
\* fields and the names it pushes to invocation_args
TransformArg(ts, struct_lookup) ==
    IF IsSimpleRef(ts)
    THEN [ tokens |-> SimpleRefTokens(ts, struct_lookup), args |-> << ts[1].text >> ]
    ELSE IF IsWrappedRef(ts)
    THEN [ tokens |-> WrappedRefTokens(ts, struct_lookup), args |-> << ts[1].text >> ]
    ELSE [ tokens |-> ts, args |-> UnknownArgs(ts) ]

\* the fold over f.sig.inputs: struct_members, with a comma before every
\* parameter but the first
RECURSIVE StructMembers(_, _, _)
StructMembers(inputs, idx, struct_lookup) ==
    IF idx > Len(inputs) THEN << >>
    ELSE ( IF idx # 1 THEN << TPunct(",") >> ELSE << >> )
         \o TransformArg(inputs[idx], struct_lookup).tokens
         \o StructMembers(inputs, idx + 1, struct_lookup)

\* invocation_args once the fold is over
RECURSIVE InvocationArgs(_, _, _)
InvocationArgs(inputs, idx, struct_lookup) ==
    IF idx > Len(inputs) THEN << >>
    ELSE TransformArg(inputs[idx], struct_lookup).args
         \o InvocationArgs(inputs, idx + 1, struct_lookup)

txt_Message_dot == << "M", "e", "s", "s", "a", "g", "e", "." >>

txt_Invocation == << "I", "n", "v", "o", "c", "a", "t", "i", "o", "n" >>

\* format!("Message.{}", f.sig.ident.to_string().to_upper_camel_case())
LatticeMethodName(fn_ident) == txt_Message_dot \o UpperCamel(fn_ident)

\* format_ident!("{}{}{}Invocation", pkg, iface, fn), each in upper camel case
StructName(wit_pkg_name, wit_iface_name, fn_ident) ==
    UpperCamel(wit_pkg_name) \o UpperCamel(wit_iface_name) \o UpperCamel(fn_ident)
    \o txt_Invocation

\* the LatticeMethod built for function f of interface wit_iface_name
BuildLatticeMethod(wit_pkg_name, struct_lookup, wit_iface_name, f) ==
    [ lattice_method_name |-> LatticeMethodName(f.ident),
      struct_name |-> StructName(wit_pkg_name, wit_iface_name, f.ident),
      struct_members |-> StructMembers(f.inputs, 1, struct_lookup),
      func_name |-> f.ident,
      invocation_args |-> InvocationArgs(f.inputs, 1, struct_lookup),
      invocation_return |-> f.output ]

\* the methods of the interfaces order[from..] whose upper-camel name is key,
\* in the order in which the loops push them
RECURSIVE MethodsForKey(_, _, _, _, _, _)
MethodsForKey(key, order, from, wit_pkg_name, struct_lookup, map) ==
    IF from > Len(order) THEN << >>
    ELSE LET wit_iface_name == order[from]
             funcs == map[wit_iface_name]
         IN  ( IF UpperCamel(wit_iface_name) = key
               THEN [ k \in 1 .. Len(funcs) |->
                        BuildLatticeMethod(wit_pkg_name, struct_lookup, wit_iface_name, funcs[k]) ]
               ELSE << >> )
             \o MethodsForKey(key, order, from + 1, wit_pkg_name, struct_lookup, map)

\* build_lattice_methods_by_wit_interface, with `order` the order in which
\* map.iter() yields the interfaces
build_lattice_methods_by_wit_interface(wit_pkg_name, struct_lookup, map, order) ==
    [ key \in { UpperCamel(i) : i \in { i \in DOMAIN map : map[i] # << >> } } |->
        MethodsForKey(key, order, 1, wit_pkg_name, struct_lookup, map) ]

\* ------------------------------------------------------------------------
\* The wit-bindgen output: items, and the syn::File parsed from them
\* ------------------------------------------------------------------------

\* items as the binding generator writes them (nested)
Mod(ident, content) ==
    [ kind |-> "mod", ident |-> ident, has_content |-> TRUE, content |-> content,
      attrs |-> << >>, inputs |-> << >>, output |-> << >> ]

\* `mod name;`
ModDecl(ident) ==
    [ kind |-> "mod", ident |-> ident, has_content |-> FALSE, content |-> << >>,
      attrs |-> << >>, inputs |-> << >>, output |-> << >> ]

Fn(ident, inputs, output) ==
    [ kind |-> "fn", ident |-> ident, has_content |-> FALSE, content |-> << >>,
      attrs |-> << >>, inputs |-> inputs, output |-> output ]

Struct(ident, attrs) ==
    [ kind |-> "struct", ident |-> ident, has_content |-> FALSE, content |-> << >>,
      attrs |-> attrs, inputs |-> << >>, output |-> << >> ]

\* any other item (use, type alias, const, ...)
OtherItem ==
    [ kind |-> "other", ident |-> << >>, has_content |-> FALSE, content |-> << >>,
      attrs |-> << >>, inputs |-> << >>, output |-> << >> ]

\* an attribute: #[path(tokens)] is Meta::List, #[path = ..] is Meta::NameValue
ListAttr(path, tokens) ==
    [ style |-> "Outer", meta |-> "List", path |-> path, tokens |-> tokens ]

NameValueAttr(path) ==
    [ style |-> "Outer", meta |-> "NameValue", path |-> path, tokens |-> << >> ]

RECURSIVE ItemSize(_)
RECURSIVE ItemsSize(_)
ItemSize(item) == 1 + ItemsSize(item.content)
ItemsSize(items) == IF items = << >> THEN 0 ELSE ItemSize(Head(items)) + ItemsSize(Tail(items))

\* syn::parse2: the nodes of the file in source order; node k's `parent` is the
\* index of its enclosing module (0 at the top level of the file)
RECURSIVE ParseItems(_, _, _)
ParseItems(items, parent, next) ==
    IF items = << >> THEN << >>
    ELSE LET it == Head(items)
         IN  << [ kind |-> it.kind, ident |-> it.ident, has_content |-> it.has_content,
                  attrs |-> it.attrs, inputs |-> it.inputs, output |-> it.output,
                  parent |-> parent ] >>
             \o ParseItems(it.content, next, next + 1)
             \o ParseItems(Tail(items), parent, next + ItemSize(it))

ParseFile(ts) == ParseItems(ts, 0, 1)

\* the indices of the items of module p (of the file when p = 0), in order
ItemsOf(ast, p) ==
    SelectSeq([ i \in 1 .. Len(ast) |-> i ], LAMBDA i : ast[i].parent = p)

\* ------------------------------------------------------------------------
\* Parameters, signatures and structures of the explored trees
\* ------------------------------------------------------------------------

\* a: &str
P_a_str == << TIdent(id_a), TPunct(":"), TPunct("&"), TIdent(id_str) >>

\* b: Option<&[u8]>
P_b_opt_bytes ==
    << TIdent(id_b), TPunct(":"), TIdent(id_Option), TPunct("<"), TPunct("&"),
       TGroup(txt_u8_slice), TPunct(">") >>

\* c: &CustomType
P_c_custom == << TIdent(id_c), TPunct(":"), TPunct("&"), TIdent(id_CustomType) >>

\* c: &Other
P_c_other == << TIdent(id_c), TPunct(":"), TPunct("&"), TIdent(id_Other) >>

\* d: u32
P_d_u32 == << TIdent(id_d), TPunct(":"), TIdent(id_u32) >>

\* a: Option<&str>
P_a_opt_str ==
    << TIdent(id_a), TPunct(":"), TIdent(id_Option), TPunct("<"), TPunct("&"),
       TIdent(id_str), TPunct(">") >>

\* b: Option<&CustomType>
P_b_opt_custom ==
    << TIdent(id_b), TPunct(":"), TIdent(id_Option), TPunct("<"), TPunct("&"),
       TIdent(id_CustomType), TPunct(">") >>

\* b: Option<&Other>
P_b_opt_other ==
    << TIdent(id_b), TPunct(":"), TIdent(id_Option), TPunct("<"), TPunct("&"),
       TIdent(id_Other), TPunct(">") >>

\* mut d: u32
P_mut_d == << TIdent(id_mut), TIdent(id_d), TPunct(":"), TIdent(id_u32) >>

\* (a, b): (u32, u32)
P_tuple ==
    << TGroup(<< "(", "a", ",", "b", ")" >>), TPunct(":"),
       TGroup(<< "(", "u", "3", "2", ",", "u", "3", "2", ")" >>) >>

\* the parameter lists of the explored functions
ParamLists ==
    { << >>,
      << P_a_str >>,
      << P_a_str, P_b_opt_bytes, P_c_custom, P_d_u32 >>,
      << P_a_opt_str, P_d_u32 >>,
      << P_b_opt_custom, P_c_other >>,
      << P_d_u32, P_b_opt_other >>,
      << P_tuple, P_d_u32 >>,
      << P_mut_d >> }

\* -> Result<(), String>
ReturnResult == << TPunct("-"), TPunct(">"), TIdent(<< "R", "e", "s", "u", "l", "t" >>) >>

derive_Clone == ListAttr(id_derive, << TIdent(id_Clone) >>)

derive_Clone_serde ==
    ListAttr(id_derive,
             << TIdent(id_Clone), TPunct(","),
                TIdent(id_serde), TPunct(":"), TPunct(":"), TIdent(id_Serialize), TPunct(","),
                TIdent(id_serde), TPunct(":"), TPunct(":"), TIdent(id_Deserialize) >>)

repr_C == ListAttr(id_repr, << TIdent(id_C) >>)

doc_attr == NameValueAttr(<< "d", "o", "c" >>)

\* the attribute lists of the explored structures
AttrLists ==
    { << >>,
      << repr_C >>,
      << doc_attr, derive_Clone >>,
      << derive_Clone_serde >>,
      << derive_Clone, repr_C, ListAttr(id_derive, << TIdent(<< "D", "e", "b", "u", "g" >>) >>) >> }

\* ------------------------------------------------------------------------
\* The explored outputs of the binding generator
\* ------------------------------------------------------------------------

\* the shape of section 6: namespace / package / interfaces, then `exports`
CanonTree(params, attrs) ==
    << Mod(id_wc,
           << Mod(id_kv,
                  << Mod(id_types, << OtherItem, Struct(id_CustomType, attrs) >>),
                     Mod(id_store, << Fn(id_get_all, params, ReturnResult) >>) >>) >>),
       Mod(EXPORTS_MODULE_NAME,
           << Mod(id_wc,
                  << Mod(id_kv,
                         << Mod(id_store, << Fn(id_put, << P_a_str >>, ReturnResult) >>) >>) >>) >>) >>

\* `exports` first, and a structure of the same name on the exported side
ExportsFirstTree ==
    << Mod(EXPORTS_MODULE_NAME,
           << Mod(id_wc,
                  << Mod(id_kv,
                         << Mod(id_store,
                                << Struct(id_CustomType, << derive_Clone >>),
                                   Fn(id_put, << P_a_str >>, ReturnResult) >>) >>) >>) >>),
       Mod(id_wc,
           << Mod(id_kv,
                  << Mod(id_store,
                         << Fn(id_get, << P_a_str, P_b_opt_bytes, P_c_custom, P_d_u32 >>,
                               ReturnResult),
                            Struct(id_CustomType, << derive_Clone >>) >>) >>) >>) >>

\* two packages under the namespace
TwoPackagesTree ==
    << Mod(id_wc,
           << Mod(id_kv, << Mod(id_store, << Fn(id_get, << P_a_str >>, ReturnResult) >>) >>),
              Mod(id_msg, << Mod(id_types, << Fn(id_put, << P_d_u32 >>, ReturnResult) >>) >>) >>) >>

\* a second, empty package after the one that holds the interface
TrailingPackageTree ==
    << Mod(id_wc,
           << Mod(id_kv, << Mod(id_store, << Fn(id_get, << P_a_str >>, ReturnResult) >>) >>),
              ModDecl(id_msg) >>) >>

\* two interfaces in one package
TwoInterfacesTree ==
    << Mod(id_wc,
           << Mod(id_kv,
                  << Mod(id_store,
                         << Fn(id_get, << P_a_str >>, ReturnResult),
                            Fn(id_put, << P_a_str, P_d_u32 >>, ReturnResult) >>),
                     Mod(id_types, << Fn(id_get_all, << >>, ReturnResult) >>) >>) >>) >>

\* two interfaces whose names are the same in upper camel case
SameCamelInterfacesTree ==
    << Mod(id_wc,
           << Mod(id_kv,
                  << Mod(id_key_value, << Fn(id_get, << P_a_str >>, ReturnResult) >>),
                     Mod(<< "k", "e", "y", "V", "a", "l", "u", "e" >>,
                         << Fn(id_put, << P_d_u32 >>, ReturnResult) >>) >>) >>) >>

\* two modules at the top level besides `exports`
TwoNamespacesTree ==
    << Mod(id_wc, << Mod(id_kv, << Mod(id_store, << Fn(id_get, << P_a_str >>, ReturnResult) >>) >>) >>),
       Mod(id_ns2, << Mod(id_msg, << Mod(id_types, << Fn(id_put, << P_d_u32 >>, ReturnResult) >>) >>) >>) >>

\* functions above and below the interface level, and a module named like
\* the package further down
DeepTree ==
    << Mod(id_wc,
           << Fn(id_get, << >>, ReturnResult),
              Mod(id_kv,
                  << Fn(id_put, << >>, ReturnResult),
                     Mod(id_store,
                         << Fn(id_get_all, << P_d_u32 >>, ReturnResult),
                            Mod(id_kv,
                                << Fn(id_get, << P_d_u32 >>, ReturnResult),
                                   Mod(id_types,
                                       << Fn(id_put, << P_a_str >>, ReturnResult),
                                          Struct(id_Other, << >>) >>) >>) >>) >>) >>) >>

\* interfaces and functions whose names meet once put together
NameClashTree ==
    << Mod(id_wc,
           << Mod(id_kv,
                  << Mod(id_store,
                         << Fn(id_get_all, << >>, ReturnResult),
                            Fn(id_all, << P_a_str >>, ReturnResult) >>),
                     Mod(id_store_get, << Fn(id_all, << P_d_u32 >>, ReturnResult) >>) >>) >>) >>

\* a module named `exports` below the package
NestedExportsTree ==
    << Mod(id_wc,
           << Mod(id_kv,
                  << Mod(EXPORTS_MODULE_NAME, << Fn(id_get, << >>, ReturnResult) >>),
                     Mod(id_store, << Fn(id_put, << P_a_str >>, ReturnResult) >>) >>) >>) >>

\* trees without a namespace module
NoNamespaceTrees ==
    { << >>,
      << OtherItem, Struct(id_CustomType, << derive_Clone >>), Fn(id_get, << >>, ReturnResult) >>,
      << Mod(EXPORTS_MODULE_NAME,
             << Mod(id_wc, << Mod(id_kv, << Mod(id_store, << Fn(id_put, << P_a_str >>, ReturnResult) >>) >>) >>) >>) >>,
      << ModDecl(EXPORTS_MODULE_NAME), OtherItem >> }

\* trees with a namespace module and no package module
NoPackageTrees ==
    { << ModDecl(id_wc) >>,
      << Mod(id_wc, << Fn(id_get, << P_a_str >>, ReturnResult), Struct(id_Other, << repr_C >>) >>) >> }

Trees ==
    { CanonTree(params, << derive_Clone >>) : params \in ParamLists }
    \cup { CanonTree(<< P_a_str, P_b_opt_bytes, P_c_custom, P_d_u32 >>, attrs) : attrs \in AttrLists }
    \cup { ExportsFirstTree, TwoPackagesTree, TrailingPackageTree, TwoInterfacesTree,
           SameCamelInterfacesTree, TwoNamespacesTree, DeepTree, NameClashTree,
           NestedExportsTree }
    \cup NoNamespaceTrees
    \cup NoPackageTrees

\* ------------------------------------------------------------------------
\* State
\* ------------------------------------------------------------------------

VARIABLES
    pc,                      \* the position of generate
    run,                     \* which run of generate on this input this is
    tokens,                  \* the macro input, collected into a Vec<TokenTree>
    panic_message,           \* the panic that aborted generate, if any
    bindgen_called,          \* whether wit_bindgen_generate was called in this run
    wit_bindgen_ts,          \* what the binding generator returns for this input
    wit_bindgen_ast,         \* the parsed file, mutated in place by the visitor
    frames,                  \* the items still to visit, per active visit call
    wit_ns,                  \* visitor.wit_ns
    wit_package,             \* visitor.wit_package
    parents,                 \* visitor.parents
    exports_ns_module,       \* visitor.exports_ns_module
    serde_extended_structs,  \* visitor.serde_extended_structs
    import_trait_fns,        \* visitor.import_trait_fns
    methods_by_iface,        \* the result of build_lattice_methods_by_wit_interface
    output,                  \* the token stream generate returns
    prev_output,             \* what the previous run on this input returned
    dispatched               \* the observed call of an emitted dispatch routine

vars ==
    << pc, run, tokens, panic_message, bindgen_called, wit_bindgen_ts, wit_bindgen_ast,
       frames, wit_ns, wit_package, parents, exports_ns_module, serde_extended_structs,
       import_trait_fns, methods_by_iface, output, prev_output, dispatched >>

visitor_vars ==
    << wit_bindgen_ast, frames, wit_ns, wit_package, parents, exports_ns_module,
       serde_extended_structs, import_trait_fns >>

\* the empty HashMap
EmptyMap == [ k \in { } |-> << >> ]

\* the tokens the macro may be given
InputTokens == { TIdent(id_Foo), TPunct(","), TPunct(";"), TLiteral(<< "1" >>) }

Init ==
    /\ pc = "start"
    /\ run = 1
    /\ tokens \in UNION { [ 1 .. n -> InputTokens ] : n \in 0 .. MaxTokens }
    /\ panic_message = None
    /\ bindgen_called = FALSE
    /\ wit_bindgen_ts = None
    /\ wit_bindgen_ast = << >>
    /\ frames = << >>
    /\ wit_ns = None
    /\ wit_package = None
    /\ parents = << >>
    /\ exports_ns_module = None
    /\ serde_extended_structs = EmptyMap
    /\ import_trait_fns = EmptyMap
    /\ methods_by_iface = EmptyMap
    /\ output = None
    /\ prev_output = None
    /\ dispatched = None

\* ------------------------------------------------------------------------
\* generate: the input check and the binding generator
\* ------------------------------------------------------------------------

\* fewest tokens generate accepts
MinTokens == 3

\* the first two tokens are `<identifier> ,`
HasStructNameAndComma(toks) ==
    /\ IsIdentTok(toks[1])
    /\ IsPunctTok(toks[2])
    /\ AsChar(toks[2]) = ","

\* a mutant of the length check, off by one
TooFewTokens_OffByOne(toks) == Len(toks) < MinTokens - 1

TooFewTokens(toks) == Len(toks) < MinTokens

\* panic!("invalid token length, ..")
PanicTokenLength ==
    /\ pc = "start"
    /\ TooFewTokens(tokens)
    /\ pc' = "panicked"
    /\ panic_message' = Some("invalid token length")
    /\ UNCHANGED << run, tokens, bindgen_called, wit_bindgen_ts, visitor_vars,
                    methods_by_iface, output, prev_output, dispatched >>

\* panic!("missing/invalid arguments to macro, ..")
PanicInvalidArguments ==
    /\ pc = "start"
    /\ ~TooFewTokens(tokens)
    /\ ~HasStructNameAndComma(tokens)
    /\ pc' = "panicked"
    /\ panic_message' = Some("missing/invalid arguments to macro")
    /\ UNCHANGED << run, tokens, bindgen_called, wit_bindgen_ts, visitor_vars,
                    methods_by_iface, output, prev_output, dispatched >>

\* the input is accepted and split into the struct name and the bindgen args
AcceptInput ==
    /\ pc = "start"
    /\ ~TooFewTokens(tokens)
    /\ HasStructNameAndComma(tokens)
    /\ pc' = "bindgen"
    /\ UNCHANGED << run, tokens, panic_message, bindgen_called, wit_bindgen_ts, visitor_vars,
                    methods_by_iface, output, prev_output, dispatched >>

impl_struct_name == tokens[1].text

\* wit_bindgen_generate(bindgen_args), then syn::parse2 of what it returns and
\* the start of visitor.visit_file_mut; the generator returns the same tokens
\* when it is run again on the same input
WitBindgenGenerate ==
    /\ pc = "bindgen"
    /\ \E ts \in Trees :
         /\ IsSome(wit_bindgen_ts) => ts = Unwrap(wit_bindgen_ts)
         /\ wit_bindgen_ts' = Some(ts)
         /\ wit_bindgen_ast' = ParseFile(ts)
         /\ frames' = << ItemsOf(ParseFile(ts), 0) >>
    /\ bindgen_called' = TRUE
    /\ pc' = "visit"
    /\ UNCHANGED << run, tokens, panic_message, wit_ns, wit_package, parents,
                    exports_ns_module, serde_extended_structs, import_trait_fns,
                    methods_by_iface, output, prev_output, dispatched >>

\* syn::parse2(..).expect("failed to parse wit-bindgen generated code as file"):
\* what the binding generator returned for this input is not a file
PanicParse ==
    /\ pc = "bindgen"
    /\ wit_bindgen_ts = None
    /\ bindgen_called' = TRUE
    /\ pc' = "panicked"
    /\ panic_message' = Some("failed to parse wit-bindgen generated code as file")
    /\ UNCHANGED << run, tokens, wit_bindgen_ts, visitor_vars,
                    methods_by_iface, output, prev_output, dispatched >>

\* ------------------------------------------------------------------------
\* WitBindgenOutputVisitor
\* ------------------------------------------------------------------------

is_wit_ns(ns, s) == IF IsSome(ns) THEN Unwrap(ns) = s ELSE FALSE

current_module_level(ps) == Len(ps)

current_module_name(ps) == IF ps = << >> THEN None ELSE Some(Last(ps))

at_wit_ns_module_child(ns, ps) == ps # << >> /\ is_wit_ns(ns, Last(ps))

at_child_of_module(ps, name) == ps # << >> /\ Last(ps) = name

at_grandchild_of_module(ps, name) ==
    IF Len(ps) >= 2 THEN ps[Len(ps) - 1] = name ELSE FALSE

\* a mutant of at_exported_module: only the direct parent is tested
at_exported_module_ParentOnly(ps) == ps # << >> /\ Last(ps) = EXPORTS_MODULE_NAME

at_exported_module(ps) == \E k \in 1 .. Len(ps) : ps[k] = EXPORTS_MODULE_NAME

\* the visit in progress: the innermost list of items, and its next item
Visiting == pc = "visit" /\ frames # << >>

CurrentItems == Last(frames)

NextItem == Head(CurrentItems)

\* frames once the next item of the innermost list is taken
FramesAfterItem == [ frames EXCEPT ![Len(frames)] = Tail(@) ]

\* wit_ns after the first check of visit_item_mod_mut
NamespaceAfterVisit(node) ==
    IF current_module_level(parents) = 0 /\ node.ident # EXPORTS_MODULE_NAME
    THEN Some(node.ident)
    ELSE wit_ns

\* a mutant of the package check: the exports subtree is not excluded
PackageAfterVisit_NoNamespaceTest(node, ns) ==
    IF current_module_level(parents) = 1
    THEN Some(node.ident)
    ELSE wit_package

\* wit_package after the second check of visit_item_mod_mut
PackageAfterVisit(node, ns) ==
    IF /\ current_module_level(parents) = 1
       /\ at_wit_ns_module_child(ns, parents)
       /\ ~at_exported_module(parents)
    THEN Some(node.ident)
    ELSE wit_package

\* exports_ns_module after the third check of visit_item_mod_mut
ExportsNsModuleAfterVisit(node) ==
    IF current_module_level(parents) = 1 /\ at_child_of_module(parents, EXPORTS_MODULE_NAME)
    THEN Some(node)
    ELSE exports_ns_module

\* visit_item_mod_mut up to the loop over the items of the module
VisitItemMod ==
    /\ Visiting
    /\ CurrentItems # << >>
    /\ LET i == NextItem
           node == wit_bindgen_ast[i]
       IN  /\ node.kind = "mod"
           /\ wit_ns' = NamespaceAfterVisit(node)
           /\ wit_package' = PackageAfterVisit(node, NamespaceAfterVisit(node))
           /\ exports_ns_module' = ExportsNsModuleAfterVisit(node)
           /\ IF node.has_content
              THEN /\ parents' = Append(parents, node.ident)
                   /\ frames' = Append(FramesAfterItem, ItemsOf(wit_bindgen_ast, i))
              ELSE /\ parents' = parents
                   /\ frames' = FramesAfterItem
    /\ UNCHANGED << pc, run, tokens, panic_message, bindgen_called, wit_bindgen_ts,
                    wit_bindgen_ast, serde_extended_structs, import_trait_fns,
                    methods_by_iface, output, prev_output, dispatched >>

\* a mutant of the end of the loop: the module is left without the pop
LeaveItemMod_NoPop ==
    /\ Visiting
    /\ CurrentItems = << >>
    /\ Len(frames) > 1
    /\ frames' = SubSeq(frames, 1, Len(frames) - 1)
    /\ UNCHANGED << pc, run, tokens, panic_message, bindgen_called, wit_bindgen_ts,
                    wit_bindgen_ast, wit_ns, wit_package, parents, exports_ns_module,
                    serde_extended_structs, import_trait_fns,
                    methods_by_iface, output, prev_output, dispatched >>

\* the end of the loop of visit_item_mod_mut: self.parents.pop()
LeaveItemMod ==
    /\ Visiting
    /\ CurrentItems = << >>
    /\ Len(frames) > 1
    /\ frames' = SubSeq(frames, 1, Len(frames) - 1)
    /\ parents' = SubSeq(parents, 1, Len(parents) - 1)
    /\ UNCHANGED << pc, run, tokens, panic_message, bindgen_called, wit_bindgen_ts,
                    wit_bindgen_ast, wit_ns, wit_package, exports_ns_module,
                    serde_extended_structs, import_trait_fns,
                    methods_by_iface, output, prev_output, dispatched >>

\* the ItemFn cloned from node i
ItemFnOf(ast, i) ==
    [ ident |-> ast[i].ident, inputs |-> ast[i].inputs, output |-> ast[i].output, node |-> i ]

\* whether the function under visit is collected
CollectsFn ==
    /\ IsSome(wit_package)
    /\ IsSome(current_module_name(parents))
    /\ ~at_exported_module(parents)
    /\ at_grandchild_of_module(parents, Unwrap(wit_package))

\* map.entry(key).or_default().push(value)
EntryPush(map, key, value) ==
    IF key \in DOMAIN map
    THEN [ map EXCEPT ![key] = Append(@, value) ]
    ELSE [ k \in DOMAIN map \cup { key } |-> IF k = key THEN << value >> ELSE map[k] ]

\* a mutant of insert: an entry already present is kept
MapInsert_KeepFirst(map, key, value) ==
    IF key \in DOMAIN map THEN map
    ELSE [ k \in DOMAIN map \cup { key } |-> IF k = key THEN value ELSE map[k] ]

\* map.insert(key, value)
MapInsert(map, key, value) ==
    [ k \in DOMAIN map \cup { key } |-> IF k = key THEN value ELSE map[k] ]

\* visit_item_mut, Item::Fn
VisitItemFn ==
    /\ Visiting
    /\ CurrentItems # << >>
    /\ wit_bindgen_ast[NextItem].kind = "fn"
    /\ import_trait_fns' =
         IF CollectsFn
         THEN EntryPush(import_trait_fns, Unwrap(current_module_name(parents)),
                        ItemFnOf(wit_bindgen_ast, NextItem))
         ELSE import_trait_fns
    /\ frames' = FramesAfterItem
    /\ UNCHANGED << pc, run, tokens, panic_message, bindgen_called, wit_bindgen_ts,
                    wit_bindgen_ast, wit_ns, wit_package, parents, exports_ns_module,
                    serde_extended_structs, methods_by_iface, output, prev_output,
                    dispatched >>

\* the tokens appended to a derive: , serde::Serialize , serde::Deserialize
SerdeDeriveTokens ==
    << TPunct(","), TIdent(id_serde), TPunct(":"), TPunct(":"), TIdent(id_Serialize),
       TPunct(","), TIdent(id_serde), TPunct(":"), TPunct(":"), TIdent(id_Deserialize) >>

IsDeriveList(attr) ==
    attr.style = "Outer" /\ attr.meta = "List" /\ attr.path = id_derive

\* the loop over s.attrs
AugmentAttrs(attrs) ==
    [ k \in 1 .. Len(attrs) |->
        IF IsDeriveList(attrs[k])
        THEN [ attrs[k] EXCEPT !.tokens = @ \o SerdeDeriveTokens ]
        ELSE attrs[k] ]

\* the import path of a structure: the parents, then its name
StructImportPath(ps, ident) == Append(ps, ident)

\* visit_item_mut, Item::Struct
VisitItemStruct ==
    /\ Visiting
    /\ CurrentItems # << >>
    /\ LET i == NextItem
           s == wit_bindgen_ast[i]
       IN  /\ s.kind = "struct"
           /\ wit_bindgen_ast' = [ wit_bindgen_ast EXCEPT ![i].attrs = AugmentAttrs(@) ]
           /\ serde_extended_structs' =
                MapInsert(serde_extended_structs, s.ident, StructImportPath(parents, s.ident))
    /\ frames' = FramesAfterItem
    /\ UNCHANGED << pc, run, tokens, panic_message, bindgen_called, wit_bindgen_ts,
                    wit_ns, wit_package, parents, exports_ns_module, import_trait_fns,
                    methods_by_iface, output, prev_output, dispatched >>

\* visit_item_mut, any other item: the default visit, which changes nothing
VisitOtherItem ==
    /\ Visiting
    /\ CurrentItems # << >>
    /\ wit_bindgen_ast[NextItem].kind = "other"
    /\ frames' = FramesAfterItem
    /\ UNCHANGED << pc, run, tokens, panic_message, bindgen_called, wit_bindgen_ts,
                    wit_bindgen_ast, wit_ns, wit_package, parents, exports_ns_module,
                    serde_extended_structs, import_trait_fns, methods_by_iface, output,
                    prev_output, dispatched >>

\* visit_file_mut returns
VisitFileReturns ==
    /\ Visiting
    /\ Len(frames) = 1
    /\ CurrentItems = << >>
    /\ frames' = << >>
    /\ pc' = "visited"
    /\ UNCHANGED << run, tokens, panic_message, bindgen_called, wit_bindgen_ts,
                    wit_bindgen_ast, wit_ns, wit_package, parents, exports_ns_module,
                    serde_extended_structs, import_trait_fns, methods_by_iface, output,
                    prev_output, dispatched >>

\* ------------------------------------------------------------------------
\* generate: after the visit
\* ------------------------------------------------------------------------

\* panic!("failed to parse top-level WIT package name ..")
PanicNoPackage ==
    /\ pc = "visited"
    /\ ~IsSome(wit_package)
    /\ pc' = "panicked"
    /\ panic_message' = Some("failed to parse top-level WIT package name")
    /\ UNCHANGED << run, tokens, bindgen_called, wit_bindgen_ts, visitor_vars,
                    methods_by_iface, output, prev_output, dispatched >>

\* methods_by_iface = build_lattice_methods_by_wit_interface(pkg, ..)
BuildLatticeMethods ==
    /\ pc = "visited"
    /\ IsSome(wit_package)
    /\ \E order \in IterOrders(DOMAIN import_trait_fns) :
         methods_by_iface' =
             build_lattice_methods_by_wit_interface(
                 Unwrap(wit_package), serde_extended_structs, import_trait_fns, order)
    /\ pc' = "built"
    /\ UNCHANGED << run, tokens, panic_message, bindgen_called, wit_bindgen_ts, visitor_vars,
                    output, prev_output, dispatched >>

\* the declarations of the invocation records of one interface
InvocationStructs(methods) ==
    [ k \in 1 .. Len(methods) |->
        [ name |-> methods[k].struct_name, members |-> methods[k].struct_members ] ]

\* the arms of `match method.as_str()`: one per method, then `_`
\* (pattern None is the wildcard)
DispatchArms(methods) ==
    [ k \in 1 .. Len(methods) |->
        [ pattern |-> Some(methods[k].lattice_method_name),
          input |-> methods[k].struct_name,
          func |-> methods[k].func_name,
          args |-> methods[k].invocation_args ] ]
    \o << [ pattern |-> None, input |-> << >>, func |-> << >>, args |-> << >> ] >>

\* the methods of `pub trait #wit_iface`
TraitMethods(methods) ==
    [ k \in 1 .. Len(methods) |->
        [ name |-> methods[k].func_name,
          params |-> methods[k].struct_members,
          returns |-> methods[k].invocation_return ] ]

\* the methods of `impl #wit_iface for #impl_struct_name`
ForwardingMethods(methods) ==
    [ k \in 1 .. Len(methods) |->
        [ name |-> methods[k].func_name,
          params |-> methods[k].struct_members,
          returns |-> methods[k].invocation_return,
          calls |-> methods[k].func_name,
          args |-> methods[k].invocation_args ] ]

\* what one iteration of the loop over methods_by_iface appends to iface_tokens
IfaceTokens(wit_iface_name, methods, struct_name) ==
    [ structs |-> InvocationStructs(methods),
      dispatch |-> [ self_ty |-> struct_name, arms |-> DispatchArms(methods) ],
      trait |-> [ name |-> wit_iface_name, methods |-> TraitMethods(methods) ],
      forwarding |-> [ trait |-> wit_iface_name, self_ty |-> struct_name,
                       methods |-> ForwardingMethods(methods) ] ]

\* the rest of generate: the loop over methods_by_iface, in the order in which
\* methods_by_iface.iter() yields the interfaces, and the final token stream
EmitOutput ==
    /\ pc = "built"
    /\ \E order \in IterOrders(DOMAIN methods_by_iface) :
         output' =
             Some([ wit_bindgen_ast_tokens |-> wit_bindgen_ast,
                    provider_handler_for |-> impl_struct_name,
                    iface_tokens |->
                        [ k \in 1 .. Len(order) |->
                            IfaceTokens(order[k], methods_by_iface[order[k]], impl_struct_name) ] ])
    /\ pc' = "done"
    /\ UNCHANGED << run, tokens, panic_message, bindgen_called, wit_bindgen_ts, visitor_vars,
                    methods_by_iface, prev_output, dispatched >>

\* generate is run again on the same input
RunAgain ==
    /\ pc = "done"
    /\ run < MaxRuns
    /\ run' = run + 1
    /\ prev_output' = output
    /\ pc' = "start"
    /\ panic_message' = None
    /\ bindgen_called' = FALSE
    /\ wit_bindgen_ast' = << >>
    /\ frames' = << >>
    /\ wit_ns' = None
    /\ wit_package' = None
    /\ parents' = << >>
    /\ exports_ns_module' = None
    /\ serde_extended_structs' = EmptyMap
    /\ import_trait_fns' = EmptyMap
    /\ methods_by_iface' = EmptyMap
    /\ output' = None
    /\ dispatched' = None
    /\ UNCHANGED << tokens, wit_bindgen_ts >>

\* ------------------------------------------------------------------------
\* The emitted dispatch routine
\* ------------------------------------------------------------------------

txt_Invalid_method_name ==
    << "I", "n", "v", "a", "l", "i", "d", " ", "m", "e", "t", "h", "o", "d", " ",
       "n", "a", "m", "e", " " >>

txt_failure == << "b", "o", "o", "m" >>

txt_Message_Nope == txt_Message_dot \o << "N", "o", "p", "e" >>

\* the first arm of the match that `method` selects
SelectedArm(arms, method) ==
    CHOOSE k \in 1 .. Len(arms) :
        /\ arms[k].pattern \in { None, Some(method) }
        /\ \A j \in 1 .. k - 1 : arms[j].pattern \notin { None, Some(method) }

\* a mutant of the selected arm: the failure of the method is returned as it is
ArmResult_Unmapped(arm, method, body_ok, call, ser_ok) ==
    IF arm.pattern = None
    THEN [ ok |-> FALSE, variant |-> "Malformed", text |-> txt_Invalid_method_name \o method ]
    ELSE IF ~body_ok
    THEN [ ok |-> FALSE, variant |-> "FromDeserialize", text |-> << >> ]
    ELSE IF ~call.ok
    THEN [ ok |-> FALSE, variant |-> "FromMethod", text |-> call.text ]
    ELSE IF ~ser_ok
    THEN [ ok |-> FALSE, variant |-> "FromSerialize", text |-> << >> ]
    ELSE [ ok |-> TRUE, variant |-> "Ok", text |-> << >> ]

\* what the selected arm returns. `?` on deserialize and on serialize hands on
\* the error of the SDK function (converted by From); only the error of the
\* method goes through map_err
ArmResult(arm, method, body_ok, call, ser_ok) ==
    IF arm.pattern = None
    THEN [ ok |-> FALSE, variant |-> "Malformed", text |-> txt_Invalid_method_name \o method ]
    ELSE IF ~body_ok
    THEN [ ok |-> FALSE, variant |-> "FromDeserialize", text |-> << >> ]
    ELSE IF ~call.ok
    THEN [ ok |-> FALSE, variant |-> "Provider", text |-> call.text ]
    ELSE IF ~ser_ok
    THEN [ ok |-> FALSE, variant |-> "FromSerialize", text |-> << >> ]
    ELSE [ ok |-> TRUE, variant |-> "Ok", text |-> << >> ]

\* the wire method names of the arms of all emitted dispatch routines
EmittedMethodNames(out) ==
    UNION { { out.iface_tokens[b].dispatch.arms[k].pattern[1] :
                k \in 1 .. Len(out.iface_tokens[b].dispatch.arms) - 1 } :
            b \in 1 .. Len(out.iface_tokens) }

\* the outcomes of the method the arm calls
CallResults == { [ ok |-> TRUE, text |-> << >> ], [ ok |-> FALSE, text |-> txt_failure ] }

\* a call of dispatch(ctx, method, body) of one of the emitted impl blocks;
\* the routine reads nothing an earlier call wrote, so every call is taken
\* from the state generate left
Dispatch ==
    /\ pc = "done"
    /\ dispatched = None
    /\ \E b \in 1 .. Len(Unwrap(output).iface_tokens),
          method \in EmittedMethodNames(Unwrap(output)) \cup { txt_Message_Nope },
          body_ok \in BOOLEAN, call \in CallResults, ser_ok \in BOOLEAN :
         LET arms == Unwrap(output).iface_tokens[b].dispatch.arms
             arm == arms[SelectedArm(arms, method)]
         IN  dispatched' =
                 Some([ block |-> b,
                        method |-> method,
                        body_ok |-> body_ok,
                        call |-> call,
                        ser_ok |-> ser_ok,
                        invoked |-> IF arm.pattern # None /\ body_ok
                                    THEN Some(arm.func) ELSE None,
                        result |-> ArmResult(arm, method, body_ok, call, ser_ok) ])
    /\ UNCHANGED << pc, run, tokens, panic_message, bindgen_called, wit_bindgen_ts,
                    visitor_vars, methods_by_iface, output, prev_output >>

\* ------------------------------------------------------------------------
\* Specification
\* ------------------------------------------------------------------------

Next ==
    \/ PanicTokenLength
    \/ PanicInvalidArguments
    \/ AcceptInput
    \/ WitBindgenGenerate
    \/ PanicParse
    \/ VisitItemMod
    \/ LeaveItemMod
    \/ VisitItemFn
    \/ VisitItemStruct
    \/ VisitOtherItem
    \/ VisitFileReturns
    \/ PanicNoPackage
    \/ BuildLatticeMethods
    \/ EmitOutput
    \/ RunAgain
    \/ Dispatch

Spec == Init /\ [][Next]_vars

\* ------------------------------------------------------------------------
\* Vocabulary of the properties
\* ------------------------------------------------------------------------

\* the identifiers of the modules enclosing node i, outermost first
RECURSIVE EnclosingModules(_, _)
EnclosingModules(ast, i) ==
    IF ast[i].parent = 0 THEN << >>
    ELSE Append(EnclosingModules(ast, ast[i].parent), ast[ast[i].parent].ident)

\* the declared name of a parameter of the explored trees (<< >> when it
\* binds no single name)
DeclaredName(param) ==
    IF param = P_tuple THEN << >>
    ELSE IF param = P_mut_d THEN id_d
    ELSE param[1].text

\* build_lattice_methods_by_wit_interface has returned
MethodsBuilt == pc \in { "built", "done" }

\* the collected functions, each with the interface it was collected under
CollectedFns ==
    UNION { { [ iface |-> i, f |-> import_trait_fns[i][k] ] :
                k \in 1 .. Len(import_trait_fns[i]) } :
            i \in DOMAIN import_trait_fns }

\* the LatticeMethods built under the upper-camel name of interface i
MethodsOfIface(i) ==
    IF UpperCamel(i) \in DOMAIN methods_by_iface
    THEN { methods_by_iface[UpperCamel(i)][k] : k \in 1 .. Len(methods_by_iface[UpperCamel(i)]) }
    ELSE { }

\* the module paths of the structures named ident, as declared in the file
DeclaredStructPaths(ident) ==
    { Append(EnclosingModules(wit_bindgen_ast, n), ident) :
        n \in { n \in 1 .. Len(wit_bindgen_ast) :
                  wit_bindgen_ast[n].kind = "struct" /\ wit_bindgen_ast[n].ident = ident } }

\* the identifier of the module two levels above the function of node n
DeclaredPackageOf(n) ==
    LET mods == EnclosingModules(wit_bindgen_ast, n)
    IN  mods[Len(mods) - 1]

\* ------------------------------------------------------------------------
\* C1
\* ------------------------------------------------------------------------

C1_Params == << P_a_str, P_b_opt_bytes, P_c_custom, P_d_u32 >>

\* a: String, b: Option<Vec<u8>>, c: <path>, d: u32
C1_Fields(path) ==
    << TIdent(id_a), TPunct(":"), TIdent(id_String), TPunct(","),
       TIdent(id_b), TPunct(":"), TIdent(id_Option), TPunct("<"),
       TIdent(id_Vec), TPunct("<"), TIdent(id_u8), TPunct(">"), TPunct(">"), TPunct(","),
       TIdent(id_c), TPunct(":") >>
    \o PathTokens(path)
    \o << TPunct(","), TIdent(id_d), TPunct(":"), TIdent(id_u32) >>

\* C1: a collected function with parameters (a: &str, b: Option<&[u8]>,
\* c: &CustomType, d: u32), CustomType being in the structure path table, gets
\* the record fields (a: String, b: Option<Vec<u8>>, c: <the module path under
\* which CustomType is declared and recorded>, d: u32), in that order, and the
\* invocation argument names [a, b, c, d].
C1_ParameterShapes ==
    MethodsBuilt =>
        \A c \in CollectedFns :
            ( c.f.inputs = C1_Params /\ id_CustomType \in DOMAIN serde_extended_structs ) =>
                \E m \in MethodsOfIface(c.iface) :
                    /\ m.func_name = c.f.ident
                    /\ serde_extended_structs[id_CustomType] \in DeclaredStructPaths(id_CustomType)
                    /\ Len(serde_extended_structs[id_CustomType]) > 1
                    /\ m.struct_members = C1_Fields(serde_extended_structs[id_CustomType])
                    /\ m.invocation_args = << id_a, id_b, id_c, id_d >>

\* a function of that signature has been transformed, with CustomType recorded
C1_Witness ==
    /\ pc = "done"
    /\ id_CustomType \in DOMAIN serde_extended_structs
    /\ \E c \in CollectedFns :
         /\ c.f.inputs = C1_Params
         /\ \E m \in MethodsOfIface(c.iface) : m.invocation_args = << id_a, id_b, id_c, id_d >>

\* ------------------------------------------------------------------------
\* C2
\* ------------------------------------------------------------------------

\* C2: every collected function f of interface i, declared under package p,
\* has a LatticeMethod whose wire name is "Message." + upper-camel(f) and whose
\* record name is upper-camel(p) + upper-camel(i) + upper-camel(f) + "Invocation".
C2_NamesUseDeclaringPackage ==
    MethodsBuilt =>
        \A c \in CollectedFns :
            \E m \in MethodsOfIface(c.iface) :
                /\ m.func_name = c.f.ident
                /\ m.lattice_method_name = txt_Message_dot \o UpperCamel(c.f.ident)
                /\ m.struct_name =
                       UpperCamel(DeclaredPackageOf(c.f.node)) \o UpperCamel(c.iface)
                       \o UpperCamel(c.f.ident) \o txt_Invocation

\* ------------------------------------------------------------------------
\* C3
\* ------------------------------------------------------------------------

\* the patterns of the arms of a dispatch routine that are not the fallback
ArmPatterns(arms) ==
    { arms[k].pattern[1] : k \in { k \in 1 .. Len(arms) : arms[k].pattern # None } }

FallbackArms(arms) == { k \in 1 .. Len(arms) : arms[k].pattern = None }

\* C3: in every emitted dispatch routine the non-fallback arms are exactly the
\* wire method names of all collected functions, of every interface, and
\* there is exactly one fallback arm.
C3_DispatchCoversAllFunctions ==
    pc = "done" =>
        \A b \in 1 .. Len(Unwrap(output).iface_tokens) :
            LET arms == Unwrap(output).iface_tokens[b].dispatch.arms
            IN  /\ ArmPatterns(arms) =
                       { txt_Message_dot \o UpperCamel(c.f.ident) : c \in CollectedFns }
                /\ Cardinality(FallbackArms(arms)) = 1

\* ------------------------------------------------------------------------
\* C4
\* ------------------------------------------------------------------------

\* C4: a second run of generate on the same input tree returns what the
\* first run returned.
C4_SameOutputOnRerun ==
    ( pc = "done" /\ IsSome(prev_output) ) => output = prev_output

\* ------------------------------------------------------------------------
\* C5
\* ------------------------------------------------------------------------

\* the method name of the last dispatch call matches an arm of the routine called
MatchesAnArm(d) ==
    d.method \in ArmPatterns(Unwrap(output).iface_tokens[d.block].dispatch.arms)

IsMalformedFor(r, method) ==
    r.variant = "Malformed" /\ r.text = txt_Invalid_method_name \o method

\* C5 as stated: every error of the dispatch routine is a malformed-request
\* error carrying the method name, returned exactly when no arm matches, or a
\* provider error carrying the description of the failure of the invoked
\* method; deserialization and serialization failures included.
C5_OnlyTwoErrorKinds ==
    IsSome(dispatched) =>
        LET d == Unwrap(dispatched)
            r == d.result
        IN  /\ ~MatchesAnArm(d) <=> IsMalformedFor(r, d.method)
            /\ ~r.ok =>
                 \/ IsMalformedFor(r, d.method)
                 \/ r.variant = "Provider" /\ IsSome(d.invoked) /\ ~d.call.ok /\ r.text = d.call.text

\* C5 amended: an error of the dispatch routine is a malformed-request error
\* carrying the method name (exactly when no arm matches), a provider error
\* carrying the description of the failure of the invoked method (exactly
\* when the arm's method was invoked and failed), or the error of the
\* deserialize or serialize call of the matching arm, handed on without
\* being mapped to a provider error (exactly when the payload does not
\* deserialize, the method then not being invoked, respectively when the
\* result of the method does not serialize).
C5_ErrorKinds ==
    IsSome(dispatched) =>
        LET d == Unwrap(dispatched)
            r == d.result
        IN  /\ ~MatchesAnArm(d) <=> IsMalformedFor(r, d.method)
            /\ r.variant = "FromDeserialize" <=> ( MatchesAnArm(d) /\ ~d.body_ok )
            /\ r.variant = "FromDeserialize" => ~IsSome(d.invoked)
            /\ r.variant = "Provider" <=> ( MatchesAnArm(d) /\ d.body_ok /\ ~d.call.ok )
            /\ r.variant = "Provider" => ( IsSome(d.invoked) /\ r.text = d.call.text )
            /\ r.variant = "FromSerialize"
                 <=> ( MatchesAnArm(d) /\ d.body_ok /\ d.call.ok /\ ~d.ser_ok )
            /\ r.ok <=> ( MatchesAnArm(d) /\ d.body_ok /\ d.call.ok /\ d.ser_ok )
            /\ ~r.ok => r.variant \in { "Malformed", "Provider", "FromDeserialize", "FromSerialize" }

\* a matching arm whose payload does not deserialize has returned
C5_Witness ==
    /\ IsSome(dispatched)
    /\ MatchesAnArm(Unwrap(dispatched))
    /\ ~Unwrap(dispatched).body_ok
    /\ ~Unwrap(dispatched).result.ok

\* ------------------------------------------------------------------------
\* C6
\* ------------------------------------------------------------------------

InputShapeMessages == { "invalid token length", "missing/invalid arguments to macro" }

\* fewer than three tokens, or the first two are not `<identifier> ,`
MalformedInput ==
    \/ Len(tokens) < 3
    \/ ~( tokens[1].kind = "Ident" /\ tokens[2] = [ kind |-> "Punct", text |-> << "," >> ] )

NoNamespaceRoot ==
    \A n \in 1 .. Len(wit_bindgen_ast) :
        ( wit_bindgen_ast[n].parent = 0 /\ wit_bindgen_ast[n].kind = "mod" )
            => wit_bindgen_ast[n].ident = EXPORTS_MODULE_NAME

txt_no_package == "failed to parse top-level WIT package name"

\* C7: when the parsed file has no namespace root, generate reaches no state past
\* the traversal except the abort: the signature transformer does not run,
\* nothing is returned, and the abort comes once the traversal is over.
C7_NoNamespaceAborts ==
    ( IsSome(wit_bindgen_ts) /\ bindgen_called /\ NoNamespaceRoot ) =>
        /\ pc \in { "visit", "visited", "panicked" }
        /\ wit_ns = None
        /\ wit_package = None
        /\ pc = "visited" => ( ENABLED PanicNoPackage /\ ~ENABLED BuildLatticeMethods )
        /\ pc = "panicked" => ( panic_message = Some(txt_no_package) /\ frames = << >> )
        /\ methods_by_iface = EmptyMap
        /\ output = None

\* generate has aborted on a file that holds modules but no namespace root
C7_Witness ==
    /\ pc = "panicked"
    /\ IsSome(wit_bindgen_ts)
    /\ bindgen_called
    /\ NoNamespaceRoot
    /\ \E n \in 1 .. Len(wit_bindgen_ast) : wit_bindgen_ast[n].parent # 0

\* ------------------------------------------------------------------------
\* C8
\* ------------------------------------------------------------------------

\* how many times ident is named in the derive groups of attrs
DeriveRefs(attrs, ident) ==
    Cardinality(
        UNION { { << k, j >> : j \in { j \in 1 .. Len(attrs[k].tokens) :
                                         attrs[k].tokens[j] = TIdent(ident) } } :
                k \in { k \in 1 .. Len(attrs) : IsDeriveList(attrs[k]) } })

HasDeriveGroup(attrs) == \E k \in 1 .. Len(attrs) : IsDeriveList(attrs[k])

\* the attributes of node n as the binding generator wrote them
OriginalAttrs(n) == ParseFile(Unwrap(wit_bindgen_ts))[n].attrs

\* C8: once the traversal is over, every structure derives serialize at most
\* once and deserialize at most once, and a structure without a derive group
\* has its attributes unchanged.
C8_NoDuplicateSerdeDerives ==
    pc = "visited" =>
        \A n \in 1 .. Len(wit_bindgen_ast) :
            wit_bindgen_ast[n].kind = "struct" =>
                /\ DeriveRefs(wit_bindgen_ast[n].attrs, id_Serialize) <= 1
                /\ DeriveRefs(wit_bindgen_ast[n].attrs, id_Deserialize) <= 1
                /\ ~HasDeriveGroup(OriginalAttrs(n)) => wit_bindgen_ast[n].attrs = OriginalAttrs(n)

\* ------------------------------------------------------------------------
\* C9
\* ------------------------------------------------------------------------

C9_Params == << P_a_opt_str, P_d_u32 >>

\* a: Option<String>, d: u32
C9_Fields ==
    << TIdent(id_a), TPunct(":"), TIdent(id_Option), TPunct("<"), TIdent(id_String), TPunct(">"),
       TPunct(","), TIdent(id_d), TPunct(":"), TIdent(id_u32) >>

\* C9: a parameter `a: Option<&str>` becomes the record field
\* `a: Option<String>`, closed by `>`, with no `str` or `&` left.
C9_WrappedStrBecomesString ==
    MethodsBuilt =>
        \A c \in CollectedFns :
            c.f.inputs = C9_Params =>
                \E m \in MethodsOfIface(c.iface) :
                    m.func_name = c.f.ident /\ m.struct_members = C9_Fields

\* ------------------------------------------------------------------------
\* C10
\* ------------------------------------------------------------------------

\* C10: the invocation argument names of every collected function are the
\* declared names of its parameters, one per parameter, in order.
C10_ArgsAreParameterNames ==
    MethodsBuilt =>
        \A c \in CollectedFns :
            \E m \in MethodsOfIface(c.iface) :
                /\ m.func_name = c.f.ident
                /\ Len(m.invocation_args) = Len(c.f.inputs)
                /\ \A k \in 1 .. Len(c.f.inputs) :
                       m.invocation_args[k] = DeclaredName(c.f.inputs[k])

\* ------------------------------------------------------------------------
\* C11
\* ------------------------------------------------------------------------

\* C11: during one traversal, once wit_ns holds a value no step of the visit
\* changes it, and once wit_package holds a value no step of the visit changes
\* it.
C11_AssignedAtMostOnce ==
    [][ ( pc = "visit" /\ pc' = "visit" ) =>
            /\ IsSome(wit_ns) => wit_ns' = wit_ns
            /\ IsSome(wit_package) => wit_package' = wit_package ]_vars

\* ------------------------------------------------------------------------
\* C12
\* ------------------------------------------------------------------------

\* the function nodes of the file with a module named `exports` among their
\* enclosing modules
ExportedFnNodes ==
    { n \in 1 .. Len(wit_bindgen_ast) :
        /\ wit_bindgen_ast[n].kind = "fn"
        /\ \E k \in 1 .. Len(EnclosingModules(wit_bindgen_ast, n)) :
             EnclosingModules(wit_bindgen_ast, n)[k] = EXPORTS_MODULE_NAME }

\* the collected functions that end up in the emitted block named key
CollectedUnder(key) == { c \in CollectedFns : UpperCamel(c.iface) = key }

\* the k-th record, arm and trait method of block b come from collected
\* function c
EmittedFor(b, k, c) ==
    /\ b.structs[k].name = StructName(Unwrap(wit_package), c.iface, c.f.ident)
    /\ b.dispatch.arms[k].pattern = Some(LatticeMethodName(c.f.ident))
    /\ b.dispatch.arms[k].func = c.f.ident
    /\ b.trait.methods[k].name = c.f.ident
    /\ b.trait.methods[k].returns = c.f.output

\* C12: no function with `exports` among its enclosing modules is in the
\* import function table, whatever the order of the sibling modules; and every
\* emitted invocation record, dispatch arm and trait method comes from a
\* function of the table, one of each per function of the table.
C12_ExportedFnsNeverCollected ==
    /\ \A c \in CollectedFns : c.f.node \notin ExportedFnNodes
    /\ pc = "done" =>
         \A j \in 1 .. Len(Unwrap(output).iface_tokens) :
             LET b == Unwrap(output).iface_tokens[j]
                 n == Cardinality(CollectedUnder(b.trait.name))
             IN  /\ Len(b.structs) = n
                 /\ Len(b.dispatch.arms) = n + 1
                 /\ Len(b.trait.methods) = n
                 /\ \A k \in 1 .. n : \E c \in CollectedUnder(b.trait.name) : EmittedFor(b, k, c)

\* the exported modules were visited before the imported ones, an exported
\* function was passed over and an imported one collected and emitted
C12_Witness ==
    /\ pc = "done"
    /\ \E n \in ExportedFnNodes : \E c \in CollectedFns : n < c.f.node
    /\ Len(Unwrap(output).iface_tokens) > 0

\* ------------------------------------------------------------------------
\* C13
\* ------------------------------------------------------------------------

\* the (package, interface, function) triple under which a collected function
\* is declared
DeclaredTriple(c) == << DeclaredPackageOf(c.f.node), c.iface, c.f.ident >>

\* the positions of the LatticeMethods built: << key, index >>
MethodPositions ==
    UNION { { << key, k >> : k \in 1 .. Len(methods_by_iface[key]) } :
            key \in DOMAIN methods_by_iface }

MethodAt(pos) == methods_by_iface[pos[1]][pos[2]]

\* C13: when the declared (package, interface, function) triples of the
\* collected functions are pairwise distinct, one LatticeMethod is built per
\* collected function, and any two of them differ in their wire method name
\* and in their invocation record name.
C13_NamesCollisionFree ==
    ( /\ MethodsBuilt
      /\ \A c1, c2 \in CollectedFns : c1 # c2 => DeclaredTriple(c1) # DeclaredTriple(c2) ) =>
        /\ Cardinality(MethodPositions) = Cardinality(CollectedFns)
        /\ \A p1, p2 \in MethodPositions :
             p1 # p2 =>
                 /\ MethodAt(p1).lattice_method_name # MethodAt(p2).lattice_method_name
                 /\ MethodAt(p1).struct_name # MethodAt(p2).struct_name

\* ------------------------------------------------------------------------
\* C14
\* ------------------------------------------------------------------------

\* the places of the emitted output: << block, index within the block >>
EmittedPlaces ==
    UNION { { << j, k >> : k \in 1 .. Len(Unwrap(output).iface_tokens[j].structs) } :
            j \in 1 .. Len(Unwrap(output).iface_tokens) }

\* place p1 comes before place p2 in the emitted token stream
PlaceBefore(p1, p2) == p1[1] < p2[1] \/ ( p1[1] = p2[1] /\ p1[2] < p2[2] )

\* C14: of any two collected functions, the record declaration, dispatch arm
\* and trait method of the one discovered first in the traversal are emitted
\* before those of the other, in the same interface or not.
C14_EmittedInDiscoveryOrder ==
    pc = "done" =>
        \A c1, c2 \in CollectedFns :
            c1.f.node < c2.f.node =>
                \E p1, p2 \in EmittedPlaces :
                    /\ EmittedFor(Unwrap(output).iface_tokens[p1[1]], p1[2], c1)
                    /\ EmittedFor(Unwrap(output).iface_tokens[p2[1]], p2[2], c2)
                    /\ PlaceBefore(p1, p2)

\* ------------------------------------------------------------------------
\* C15
\* ------------------------------------------------------------------------

\* the visitor is about to visit an item
AtItem == Visiting /\ CurrentItems # << >>

\* visit_file_mut has returned
VisitOver == pc \in { "visited", "built", "done" }

\* C15: whenever the visitor visits an item, parents is the sequence of the
\* identifiers of the item's enclosing modules, outermost first, and the
\* module level is the item's nesting depth; one visit call is active per
\* element of parents, besides that of the file; once visit_file_mut has
\* returned, parents is empty.
C15_ParentsBalanced ==
    /\ AtItem =>
         /\ parents = EnclosingModules(wit_bindgen_ast, NextItem)
         /\ current_module_level(parents) = Len(EnclosingModules(wit_bindgen_ast, NextItem))
    /\ Visiting => Len(frames) = Len(parents) + 1
    /\ VisitOver => parents = << >>

\* an item at depth two or more is visited after a sibling module of its
\* enclosing module was entered and left
C15_Witness ==
    /\ AtItem
    /\ Len(parents) >= 2
    /\ \E n \in 1 .. Len(wit_bindgen_ast) :
         /\ n < wit_bindgen_ast[NextItem].parent
         /\ wit_bindgen_ast[n].kind = "mod"
         /\ wit_bindgen_ast[n].has_content
         /\ ItemsOf(wit_bindgen_ast, n) # << >>
         /\ wit_bindgen_ast[n].parent = wit_bindgen_ast[wit_bindgen_ast[NextItem].parent].parent

\* ------------------------------------------------------------------------
\* C16
\* ------------------------------------------------------------------------

\* the function nodes of the file
FnNodes == { n \in 1 .. Len(wit_bindgen_ast) : wit_bindgen_ast[n].kind = "fn" }

\* node n is a direct item of a module at depth two, below
\* [namespace module, package module], with no `exports` among its enclosing
\* modules
InInterfaceModule(n) ==
    /\ Len(EnclosingModules(wit_bindgen_ast, n)) = 3
    /\ n \notin ExportedFnNodes

\* C16: once the traversal is over, a function is in the import function table
\* if and only if it is a direct item of a non-exported module at depth
\* exactly two; it is stored under the name of its immediate enclosing module,
\* and the functions of each interface are in declaration order.
C16_CollectedIffInterfaceLevel ==
    VisitOver =>
        /\ \A n \in FnNodes :
             ( \E c \in CollectedFns : c.f.node = n ) <=> InInterfaceModule(n)
        /\ \A c \in CollectedFns :
             /\ c.iface = Last(EnclosingModules(wit_bindgen_ast, c.f.node))
             /\ c.f = ItemFnOf(wit_bindgen_ast, c.f.node)
        /\ \A i \in DOMAIN import_trait_fns :
             \A k1, k2 \in 1 .. Len(import_trait_fns[i]) :
                 k1 < k2 => import_trait_fns[i][k1].node < import_trait_fns[i][k2].node

\* ------------------------------------------------------------------------
\* C17
\* ------------------------------------------------------------------------

\* the structure nodes of the file named ident
StructNodes(ident) ==
    { n \in 1 .. Len(wit_bindgen_ast) :
        wit_bindgen_ast[n].kind = "struct" /\ wit_bindgen_ast[n].ident = ident }

\* the names of the structures of the file
StructIdents ==
    { wit_bindgen_ast[n].ident :
        n \in { n \in 1 .. Len(wit_bindgen_ast) : wit_bindgen_ast[n].kind = "struct" } }

\* the structure named ident that the traversal, which goes through the file
\* in source order, visits last
LastVisitedStruct(ident) ==
    CHOOSE n \in StructNodes(ident) : \A o \in StructNodes(ident) : o <= n

\* C17: once the traversal is over, the structure path table has one entry
\* per structure name declared anywhere in the file, and the entry is the
\* identifiers of the enclosing modules, outermost first, then the name, of
\* the structure of that name visited last.
C17_StructPathsLastWins ==
    VisitOver =>
        /\ DOMAIN serde_extended_structs = StructIdents
        /\ \A ident \in StructIdents :
             serde_extended_structs[ident] =
                 Append(EnclosingModules(wit_bindgen_ast, LastVisitedStruct(ident)), ident)

\* two structures of one name, in different modules, were visited
C17_Witness ==
    /\ VisitOver
    /\ \E ident \in StructIdents :
         /\ Cardinality(StructNodes(ident)) > 1
         /\ Cardinality(DeclaredStructPaths(ident)) > 1
         /\ Len(serde_extended_structs[ident]) > 1

\* ------------------------------------------------------------------------
\* C18
\* ------------------------------------------------------------------------

\* the fields of a record field list: its tokens between the commas
RECURSIVE SplitAtCommas(_)
SplitAtCommas(toks) ==
    IF toks = << >> THEN << << >> >>
    ELSE LET rest == SplitAtCommas(Tail(toks))
         IN  IF Head(toks) = TPunct(",")
             THEN << << >> >> \o rest
             ELSE << << Head(toks) >> \o Head(rest) >> \o Tail(rest)

\* `name: Wrapper<&str>` or `name: Wrapper<&[u8]>`
IsWrappedStrOrBytes(ts) ==
    /\ IsWrappedRef(ts)
    /\ Len(ts) = 7
    /\ \/ ( IsIdentTok(ts[6]) /\ ts[6].text = id_str )
       \/ ( IsGroupTok(ts[6]) /\ ts[6].text = txt_u8_slice )

\* a parameter of none of the shapes `name: &str`, `name: Wrapper<&str>`,
\* `name: Wrapper<&[u8]>`, `name: &T`
IsOtherShape(ts) == ~IsSimpleRef(ts) /\ ~IsWrappedStrOrBytes(ts)

\* `name: Wrapper<&T ..>` with T in the structure path table
IsWrappedKnownStruct(ts) ==
    /\ IsOtherShape(ts)
    /\ IsWrappedRef(ts)
    /\ ts[6].text \in DOMAIN serde_extended_structs

\* the k-th field of the record built for collected function c is toks
FieldIs(c, k, toks) ==
    \E m \in MethodsOfIface(c.iface) :
        /\ m.func_name = c.f.ident
        /\ m.struct_name = StructName(Unwrap(wit_package), c.iface, c.f.ident)
        /\ Len(SplitAtCommas(m.struct_members)) = Len(c.f.inputs)
        /\ SplitAtCommas(m.struct_members)[k] = toks

\* C18 (as claimed): every parameter of another shape, a wrapped reference to
\* a custom type included, with the type in the structure path table or not,
\* is emitted into the record field list token for token unchanged.
C18_OtherShapesUnchanged ==
    MethodsBuilt =>
        \A c \in CollectedFns :
            \A k \in 1 .. Len(c.f.inputs) :
                IsOtherShape(c.f.inputs[k]) => FieldIs(c, k, c.f.inputs[k])

\* C18 (amended): a parameter of another shape is emitted token for token
\* unchanged, except a wrapped reference `name: Wrapper<&T ..>` whose T is in
\* the structure path table: there T is replaced by the recorded path of T,
\* and every other token, the `&` included, is kept.
C18_OtherShapesUnchangedButKnownStruct ==
    MethodsBuilt =>
        \A c \in CollectedFns :
            \A k \in 1 .. Len(c.f.inputs) :
                LET ts == c.f.inputs[k]
                IN  IsOtherShape(ts) =>
                        IF IsWrappedKnownStruct(ts)
                        THEN FieldIs(c, k,
                                     SubSeq(ts, 1, 5)
                                     \o PathTokens(serde_extended_structs[ts[6].text])
                                     \o SubSeq(ts, 7, Len(ts)))
                        ELSE FieldIs(c, k, ts)

\* a function was transformed that has a wrapped reference to a structure of
\* the table, declared inside a module, and the field emitted for it is not
\* the parameter as it was
C18_Witness ==
    /\ MethodsBuilt
    /\ \E c \in CollectedFns :
         \E k \in 1 .. Len(c.f.inputs) :
             /\ IsWrappedKnownStruct(c.f.inputs[k])
             /\ Len(serde_extended_structs[c.f.inputs[k][6].text]) > 1
             /\ ~FieldIs(c, k, c.f.inputs[k])

====
